---- MODULE Spec2Model ----
(***************************************************************************)
(* pi_iowrap: the port/interface layer over the Raspberry Pi GPIO header   *)
(* (pi.py) and the MCP23017 I2C expander (mcp.py), with the expander's     *)
(* register codec and its polling listener thread.                         *)
(*                                                                         *)
(* One behaviour follows one interface instance (variant "pi" or "mcp"),   *)
(* from before its construction.  The chip and the pins are modelled by    *)
(* the registers and levels the code reads and writes through the bus and  *)
(* GPIO handles.                                                           *)
(***************************************************************************)
EXTENDS Integers, Sequences, FiniteSets, TLC

\* ---------------------------------------------------------------- bounds
\* Engine instances that may be created in one behaviour (construction of
\* an expander interface alone creates one per port).
MaxEngines == 18
\* Callbacks held by one callback list.
MaxCallbacks == 2

\* ------------------------------------------------------ program constants
HIGH == 1
LOW == 0
INPUT == "INPUT"
OUTPUT == "OUTPUT"
None == "None"

McpPortsCount == 16
PiPortsCount == 40

PART_A == "A"
PART_B == "B"

GROUND == {6, 9, 14, 20, 25, 30, 34, 39}
POWER_5V == {2, 4}
POWER_3V3 == {1, 17}
I2C == {3, 5, 27, 28}
FORBIDDEN == GROUND \cup POWER_5V \cup POWER_3V3 \cup I2C

\* MCP23017 register addresses used by mcp.py (IODIR, GPIO, OLAT per bank).
REG_SETAS_A == 0
REG_SETAS_B == 1
REG_READ_A == 18
REG_READ_B == 19
REG_WRITE_A == 20
REG_WRITE_B == 21

InvalidPortNumberError == "InvalidPortNumberError"
AttributeError == "AttributeError"
IndexError == "IndexError"
Ok == "ok"
\* An absent value is the empty sequence, a value v the sequence <<v>>.
NoValue == <<>>
Some(v) == <<v>>

\* ------------------------------------------------------------ the inputs
\* Port numbers the application passes to an expander interface: three
\* valid ports (two siblings of bank A, the first port of bank B) and the
\* numbers around the valid range.
McpCallPorts == {-1, 0, 1, 3, 9, 17}
\* Port numbers passed to the native interface: a usable pin, a reserved
\* pin of each kind, and the numbers around the valid range.
PiCallPorts == {0, 1, 2, 3, 6, 7, 41}
\* Ports whose external level the environment moves.
McpEnvPorts == {1, 3, 9}
PiEnvPorts == {7}
Callbacks == {"cbA", "cbB"}
CallbackArgs == Callbacks \cup {None}

VARIABLES
    variant,                      \* "pi" | "mcp": the interface class followed
    threadStop,                   \* what reading Thread._stop gives before stop()
    Settings_IS_NO_HARDWARE_MODE, \* base.Settings.IS_NO_HARDWARE_MODE, read live
    mcp_IS_NO_HARDWARE_MODE,      \* the name mcp.py bound at import
    libs,                         \* base._BUS / base._GPIO are set
    phase,                        \* "new" | "ready" | "failed"
    in_out_registry,              \* InOutInterface._in_out_registry
    bus_regs,                     \* the expander's IODIR and OLAT registers
    ext,                          \* level applied from outside to each line
    gpio_mode,                    \* native pins: "unset" | "IN" | "OUT"
    gpio_out,                     \* native pins: level last output
    gpio_events,                  \* native pins with edge detection registered
    port_listeners,               \* PiInterface._port_listeners
    engine,                       \* MCP23017._read_events_thread and its fields
    engineCount,                  \* _MCP23017ListenerThread instances created
    stoppedEngines,               \* the instances stop() has been called on
    loop,                         \* position of the thread executing run()
    fired,                        \* callback invocations of the current tick
    confirmed,                    \* per port: the level the debounce last confirmed
    quiet                         \* per port: a glitch was discarded and the
                                  \* level has not moved since

vars == <<variant, threadStop, Settings_IS_NO_HARDWARE_MODE,
          mcp_IS_NO_HARDWARE_MODE, libs, phase, in_out_registry, bus_regs,
          ext, gpio_mode, gpio_out, gpio_events, port_listeners, engine,
          engineCount, stoppedEngines, loop, fired, confirmed, quiet>>

\* ------------------------------------------------------------ arithmetic
RECURSIVE Pow2(_)
Pow2(n) == IF n = 0 THEN 1 ELSE 2 * Pow2(n - 1)

Bit(byte, i) == (byte \div Pow2(i)) % 2

Reverse(s) == [i \in 1..Len(s) |-> s[Len(s) + 1 - i]]

\* int(str, 2) of a string "0b........"
RECURSIVE IntOfDigits(_)
IntOfDigits(ds) ==
    IF Len(ds) = 0 THEN 0
    ELSE 2 * IntOfDigits(SubSeq(ds, 1, Len(ds) - 1))
         + (IF ds[Len(ds)] = "1" THEN 1 ELSE 0)

IntBase2(str) == IntOfDigits(SubSeq(str, 3, Len(str)))

\* format(value, '08b'): eight binary digits, most significant first.
Format08b(value) == [i \in 1..8 |-> IF Bit(value, 8 - i) = 1 THEN "1" ELSE "0"]

\* ------------------------------------------------------------- base.py
PortsLen(v) == (IF v = "mcp" THEN McpPortsCount ELSE PiPortsCount) + 1

\* The Port objects of _ports: index 0, and on the native interface the
\* reserved pins, hold None.
HasPort(v, n) ==
    /\ n \in 1..(PortsLen(v) - 1)
    /\ v = "pi" => n \notin FORBIDDEN

Base_validate_port_number(v, port_number) ==
    IF port_number <= 0 THEN InvalidPortNumberError
    ELSE IF port_number >= PortsLen(v) THEN InvalidPortNumberError
    ELSE Ok

\* list[i] of Python: a negative index counts from the end, an index outside
\* the list raises IndexError.
ListIndexOk(len, i) == i < len /\ i >= -len
ListIndex(len, i) == IF i < 0 THEN len + i ELSE i

\* As _validate_write_port_number refusing only a port never configured.
Mutant_validate_write_port_number(registry, port_number) ==
    IF registry[port_number] = None THEN InvalidPortNumberError ELSE Ok

Base_validate_write_port_number(registry, port_number) ==
    IF registry[port_number] = INPUT THEN InvalidPortNumberError ELSE Ok

Base_validate_listen_port_number(v, registry, port_number) ==
    IF ~ListIndexOk(PortsLen(v), port_number) THEN IndexError
    ELSE IF registry[ListIndex(PortsLen(v), port_number)] = OUTPUT
         THEN InvalidPortNumberError
         ELSE Ok

\* _check_no_hardware_port_value: LOW in no-hardware mode, None otherwise.
Base_check_no_hardware_port_value(flag) == IF flag THEN Some(LOW) ELSE NoValue

\* ------------------------------------------------- the MCP23017 chip
RECURSIVE ByteOfBits(_, _)
ByteOfBits(bits, i) ==
    IF i > 7 THEN 0 ELSE bits[i] * Pow2(i) + ByteOfBits(bits, i + 1)

\* read_byte_data of a GPIO register: a line configured as input in IODIR
\* reads the level applied from outside, an output line reads its latch.
ChipRead(bus, register) ==
    LET start == IF register = REG_READ_A THEN 1 ELSE 9
        iodir == IF register = REG_READ_A THEN bus[REG_SETAS_A] ELSE bus[REG_SETAS_B]
        olat == IF register = REG_READ_A THEN bus[REG_WRITE_A] ELSE bus[REG_WRITE_B]
    IN ByteOfBits([i \in 0..7 |-> IF Bit(iodir, i) = 1 THEN ext[start + i]
                                                     ELSE Bit(olat, i)], 0)

\* write_byte_data(address, register, byte)
ChipWrite(bus, register, byte) == [bus EXCEPT ![register] = byte]

\* base.get_bus(): the handle is created on first use outside no-hardware
\* mode; in no-hardware mode a handle never created is None.
GetBusOk(libsNow) == libsNow \/ ~Settings_IS_NO_HARDWARE_MODE

\* ------------------------------------------------------------- mcp.py
\* runner: the thread executing the object's run(): "none", "caller" (the
\* thread that called _get_events_thread) or "thread" (one of its own).
NoEngine == [id |-> 0, stop |-> "unset", listeners |-> <<>>, runner |-> "none"]

\* As _get_part with the bank boundary one port too high.
Mutant_get_part(port_number) == IF port_number <= 9 THEN PART_A ELSE PART_B

Mcp_get_part(port_number) == IF port_number <= 8 THEN PART_A ELSE PART_B

Mcp_get_write_register(port_number) ==
    IF Mcp_get_part(port_number) = PART_A THEN REG_WRITE_A ELSE REG_WRITE_B

Mcp_get_read_register(port_number) ==
    IF Mcp_get_part(port_number) = PART_A THEN REG_READ_A ELSE REG_READ_B

Mcp_get_setas_register(port_number) ==
    IF Mcp_get_part(port_number) = PART_A THEN REG_SETAS_A ELSE REG_SETAS_B

\* The results below are records [s, result, value, writes, hw]: the
\* interface state after the call, what the call raised (or Ok), the level
\* returned, the bytes written to the bus in order, the kinds of hardware
\* access made.
Res(s, result, value, writes, hw) ==
    [s |-> s, result |-> result, value |-> value, writes |-> writes, hw |-> hw]

\* As the decoding in get_value without the reversal of the digit string.
Mutant_decode(raw, port_number) ==
    LET index == (port_number - 1) % 8
        ch == Format08b(raw)[index + 1]
    IN IF ch = "0" THEN Some(LOW) ELSE IF ch = "1" THEN Some(HIGH) ELSE NoValue

Mcp_decode(raw, port_number) ==
    LET index == (port_number - 1) % 8
        ch == Reverse(Format08b(raw))[index + 1]
    IN IF ch = "0" THEN Some(LOW) ELSE IF ch = "1" THEN Some(HIGH) ELSE NoValue

Mcp_get_value(s, port_number) ==
    LET v == Base_validate_port_number("mcp", port_number)
        sim == Base_check_no_hardware_port_value(Settings_IS_NO_HARDWARE_MODE)
    IN IF v # Ok THEN Res(s, v, NoValue, <<>>, {})
       ELSE IF sim # NoValue THEN Res(s, Ok, sim, <<>>, {})
       ELSE LET raw == ChipRead(s.bus, Mcp_get_read_register(port_number))
                d == Mcp_decode(raw, port_number)
            IN Res([s EXCEPT !.libs = TRUE],
                   IF d = NoValue THEN "Error" ELSE Ok, d, <<>>, {"bus_read"})

\* As the sibling getter of set_high / set_low giving LOW for every port.
Mutant_level_getter(s) == [q \in 1..McpPortsCount |-> LOW]

\* lambda x: self.HIGH if x.is_high else self.LOW
Mcp_level_getter(s) ==
    [q \in 1..McpPortsCount |->
        IF Mcp_get_value(s, q).value = Some(HIGH) THEN HIGH ELSE LOW]

\* As the sibling getter of set_as_input / set_as_output taking each
\* sibling's level, the getter of the level writes, instead of its direction.
Mutant_direction_getter(s) == Mcp_level_getter(s)

\* lambda x: self.HIGH if x.is_input else self.LOW
Mcp_direction_getter(s) ==
    [q \in 1..McpPortsCount |-> IF s.registry[q] = INPUT THEN HIGH ELSE LOW]

Mcp_get_binary_string_for_value(port_number, value, siblings_value_getter) ==
    LET start_port_number == IF Mcp_get_part(port_number) = PART_B THEN 9 ELSE 1
        binary_value ==
            [k \in 1..8 |->
                LET number == start_port_number + k - 1
                IN IF number = port_number
                   THEN (IF value = HIGH THEN "1" ELSE "0")
                   ELSE (IF siblings_value_getter[number] = HIGH THEN "1" ELSE "0")]
    IN <<"0", "b">> \o Reverse(binary_value)

\* _set_value; reads says whether the sibling getter read the bus.
Mcp_set_value(s, port_number, register, value, siblings_value_getter, reads) ==
    LET binary_str_to_write ==
            Mcp_get_binary_string_for_value(port_number, value, siblings_value_getter)
        byte == IntBase2(binary_str_to_write)
        libsRead == s.libs \/ reads
        hwRead == IF reads THEN {"bus_read"} ELSE {}
    IN IF mcp_IS_NO_HARDWARE_MODE
       THEN Res([s EXCEPT !.libs = libsRead], Ok, NoValue, <<>>, hwRead)
       ELSE IF ~GetBusOk(libsRead)
            THEN Res([s EXCEPT !.libs = libsRead], AttributeError, NoValue, <<>>, hwRead)
            ELSE Res([s EXCEPT !.libs = TRUE, !.bus = ChipWrite(s.bus, register, byte)],
                     Ok, NoValue, <<<<register, byte>>>>, hwRead \cup {"bus_write"})

Mcp_set_level(s, port_number, value) ==
    LET v == Base_validate_port_number("mcp", port_number)
    IN IF v # Ok THEN Res(s, v, NoValue, <<>>, {})
       ELSE LET w == Base_validate_write_port_number(s.registry, port_number)
            IN IF w # Ok THEN Res(s, w, NoValue, <<>>, {})
               ELSE Mcp_set_value(s, port_number,
                                  Mcp_get_write_register(port_number), value,
                                  Mcp_level_getter(s),
                                  ~Settings_IS_NO_HARDWARE_MODE)

Mcp_set_high(s, port_number) == Mcp_set_level(s, port_number, HIGH)

Mcp_set_low(s, port_number) == Mcp_set_level(s, port_number, LOW)

\* _MCP23017ListenerThread.run, entered by the caller of _get_events_thread:
\* the loop condition reads self._stop, which __init__ never sets.  On an
\* interpreter whose Thread has no _stop the read raises; where Thread._stop
\* is a method the read is true and the loop is not entered.
RunRaises(eng) == eng.stop = "unset" /\ threadStop = "absent"

\* _get_events_thread: [eng, cnt, raised].  A new thread object is not
\* started: its run() is called, and executes in the calling thread.
Mcp_get_events_thread(s) ==
    IF s.eng.id # 0
    THEN [eng |-> s.eng, cnt |-> s.cnt, raised |-> FALSE]
    ELSE LET new == [id |-> s.cnt + 1, stop |-> "unset", listeners |-> <<>>,
                     runner |-> "caller"]
         IN [eng |-> new, cnt |-> s.cnt + 1, raised |-> RunRaises(new)]

\* _MCP23017ListenerThread.clear_events
Thread_clear_events(listeners, number) ==
    IF number \in DOMAIN listeners
    THEN [listeners EXCEPT ![number].rising = <<>>, ![number].falling = <<>>]
    ELSE listeners

\* _MCP23017ListenerThread.has_any_events
Thread_has_any_events(listeners) == DOMAIN listeners # {}

\* As clear_read_events dropping the thread object without calling stop().
Mutant_clear_read_events(s, port_number) ==
    LET g == Mcp_get_events_thread(s)
        s1 == [s EXCEPT !.eng = g.eng, !.cnt = g.cnt]
        v == Base_validate_port_number("mcp", port_number)
    IN IF g.raised THEN Res(s1, AttributeError, NoValue, <<>>, {})
       ELSE IF v # Ok THEN Res(s1, v, NoValue, <<>>, {})
       ELSE LET ls == Thread_clear_events(g.eng.listeners, port_number)
            IN IF ~Thread_has_any_events(ls)
               THEN Res([s1 EXCEPT !.eng = NoEngine], Ok, NoValue, <<>>, {})
               ELSE Res([s1 EXCEPT !.eng.listeners = ls], Ok, NoValue, <<>>, {})

Mcp_clear_read_events(s, port_number) ==
    LET g == Mcp_get_events_thread(s)
        s1 == [s EXCEPT !.eng = g.eng, !.cnt = g.cnt]
        v == Base_validate_port_number("mcp", port_number)
    IN IF g.raised THEN Res(s1, AttributeError, NoValue, <<>>, {})
       ELSE IF v # Ok THEN Res(s1, v, NoValue, <<>>, {})
       ELSE LET ls == Thread_clear_events(g.eng.listeners, port_number)
            IN IF ~Thread_has_any_events(ls)
               THEN Res([s1 EXCEPT !.eng = NoEngine,
                                   !.stopped = @ \cup {g.eng.id}],
                        Ok, NoValue, <<>>, {})
               ELSE Res([s1 EXCEPT !.eng.listeners = ls], Ok, NoValue, <<>>, {})

Mcp_set_as_input(s, port_number) ==
    LET v == Base_validate_port_number("mcp", port_number)
    IN IF v # Ok THEN Res(s, v, NoValue, <<>>, {})
       ELSE LET w == Mcp_set_value(s, port_number,
                                   Mcp_get_setas_register(port_number), HIGH,
                                   Mcp_direction_getter(s), FALSE)
            IN IF w.result # Ok THEN w
               ELSE [w EXCEPT !.s.registry[port_number] = INPUT]

Mcp_set_as_output(s, port_number) ==
    LET v == Base_validate_port_number("mcp", port_number)
    IN IF v # Ok THEN Res(s, v, NoValue, <<>>, {})
       ELSE LET w == Mcp_set_value(s, port_number,
                                   Mcp_get_setas_register(port_number), LOW,
                                   Mcp_direction_getter(s), FALSE)
            IN IF w.result # Ok THEN w
               ELSE LET s1 == [w.s EXCEPT !.registry[port_number] = OUTPUT]
                        c == Mcp_clear_read_events(s1, port_number)
                    IN Res(c.s, c.result, NoValue, w.writes, w.hw)

\* _MCP23017ListenerThread.on_rising / on_falling: the listener looked up is
\* the registered one or, when the port has none, a new _PortListener that
\* is not put into the registry.
\* As on_rising with a listener that puts the new callback first.
Mutant_on_rising(listeners, number, callback) ==
    IF number \in DOMAIN listeners
    THEN [listeners EXCEPT ![number].rising = <<callback>> \o @]
    ELSE listeners

Thread_on_rising(listeners, number, callback) ==
    IF number \in DOMAIN listeners
    THEN [listeners EXCEPT ![number].rising = Append(@, callback)]
    ELSE listeners

Thread_on_falling(listeners, number, callback) ==
    IF number \in DOMAIN listeners
    THEN [listeners EXCEPT ![number].falling = Append(@, callback)]
    ELSE listeners

Mcp_add_event(s, port_number, on_rising_callback, on_falling_callback) ==
    LET l == Base_validate_listen_port_number("mcp", s.registry, port_number)
        g == Mcp_get_events_thread(s)
        s1 == [s EXCEPT !.eng = g.eng, !.cnt = g.cnt]
        v == Base_validate_port_number("mcp", port_number)
        \* _PortListener(port) reads port.value for its last_read_value
        rd == Mcp_get_value(s1, port_number)
        ls1 == IF on_rising_callback # None
               THEN Thread_on_rising(g.eng.listeners, port_number, on_rising_callback)
               ELSE g.eng.listeners
        ls2 == IF on_falling_callback # None
               THEN Thread_on_falling(ls1, port_number, on_falling_callback)
               ELSE ls1
    IN IF l # Ok THEN Res(s, l, NoValue, <<>>, {})
       ELSE IF g.raised THEN Res(s1, AttributeError, NoValue, <<>>, {})
       ELSE IF on_rising_callback = None /\ on_falling_callback = None
            THEN Res(s1, Ok, NoValue, <<>>, {})
       ELSE IF v # Ok THEN Res(s1, v, NoValue, <<>>, {})
       ELSE Res([rd.s EXCEPT !.eng.listeners = ls2], rd.result, NoValue, <<>>, rd.hw)

\* As _initialize_ports with a Port.initialize that only sets the direction.
RECURSIVE Mutant_initialize_ports(_, _, _, _)
Mutant_initialize_ports(s, number, writes, hw) ==
    IF number > McpPortsCount THEN Res(s, Ok, NoValue, writes, hw)
    ELSE LET o == Mcp_set_as_output(s, number)
         IN IF o.result # Ok
            THEN Res(o.s, o.result, NoValue, writes \o o.writes, hw \cup o.hw)
            ELSE Mutant_initialize_ports(o.s, number + 1,
                                         writes \o o.writes, hw \cup o.hw)

\* Port.initialize for ports number..16, as _initialize_ports runs it.
RECURSIVE Mcp_initialize_ports(_, _, _, _)
Mcp_initialize_ports(s, number, writes, hw) ==
    IF number > McpPortsCount THEN Res(s, Ok, NoValue, writes, hw)
    ELSE LET o == Mcp_set_as_output(s, number)
         IN IF o.result # Ok
            THEN Res(o.s, o.result, NoValue, writes \o o.writes, hw \cup o.hw)
            ELSE LET w == Mcp_set_low(o.s, number)
                 IN IF w.result # Ok
                    THEN Res(w.s, w.result, NoValue,
                             writes \o o.writes \o w.writes, hw \cup o.hw \cup w.hw)
                    ELSE Mcp_initialize_ports(w.s, number + 1,
                             writes \o o.writes \o w.writes, hw \cup o.hw \cup w.hw)

\* -------------------------------------------------------------- pi.py
\* As PiInterface._validate_port_number with only the inherited range check.
Mutant_pi_validate_port_number(port_number) ==
    Base_validate_port_number("pi", port_number)

Pi_validate_port_number(port_number) ==
    IF Base_validate_port_number("pi", port_number) # Ok
    THEN InvalidPortNumberError
    ELSE IF port_number \in GROUND THEN InvalidPortNumberError
    ELSE IF port_number \in POWER_3V3 THEN InvalidPortNumberError
    ELSE IF port_number \in POWER_5V THEN InvalidPortNumberError
    ELSE IF port_number \in I2C THEN InvalidPortNumberError
    ELSE IF port_number \in FORBIDDEN THEN InvalidPortNumberError
    ELSE Ok

\* _gpio_setup: gpio.setup(port_number, IN | OUT) outside no-hardware mode.
Pi_gpio_setup(s, port_number, gpio_attr_name) ==
    LET v == Pi_validate_port_number(port_number)
    IN IF v # Ok THEN Res(s, v, NoValue, <<>>, {})
       ELSE IF Settings_IS_NO_HARDWARE_MODE THEN Res(s, Ok, NoValue, <<>>, {})
       ELSE Res([s EXCEPT !.libs = TRUE, !.mode[port_number] = gpio_attr_name],
                Ok, NoValue, <<>>, {"gpio_setup"})

\* _gpio_output: gpio.output(port_number, level) outside no-hardware mode.
Pi_gpio_output(s, port_number, value) ==
    LET v == Pi_validate_port_number(port_number)
    IN IF v # Ok THEN Res(s, v, NoValue, <<>>, {})
       ELSE IF Settings_IS_NO_HARDWARE_MODE THEN Res(s, Ok, NoValue, <<>>, {})
       ELSE Res([s EXCEPT !.libs = TRUE,
                          !.out[port_number] = IF value = HIGH THEN HIGH ELSE LOW],
                Ok, NoValue, <<>>, {"gpio_output"})

\* gpio.input: a pin set up as output reads the level it drives, any other
\* pin the level applied from outside.
PinRead(s, port_number) ==
    IF s.mode[port_number] = "OUT" THEN s.out[port_number] ELSE ext[port_number]

Pi_get_value(s, port_number) ==
    LET v == Pi_validate_port_number(port_number)
        sim == Base_check_no_hardware_port_value(Settings_IS_NO_HARDWARE_MODE)
    IN IF v # Ok THEN Res(s, v, NoValue, <<>>, {})
       ELSE IF sim # NoValue THEN Res(s, Ok, sim, <<>>, {})
       ELSE Res([s EXCEPT !.libs = TRUE], Ok,
                Some(IF PinRead(s, port_number) = HIGH THEN HIGH ELSE LOW),
                <<>>, {"gpio_input"})

Pi_set_as_input(s, port_number) ==
    LET g == Pi_gpio_setup(s, port_number, "IN")
    IN IF g.result # Ok THEN g
       ELSE [g EXCEPT !.s.registry[port_number] = INPUT]

Pi_set_as_output(s, port_number) ==
    LET g == Pi_gpio_setup(s, port_number, "OUT")
    IN IF g.result # Ok THEN g
       ELSE [g EXCEPT !.s.registry[port_number] = OUTPUT]

Pi_set_level(s, port_number, value) ==
    LET v == Pi_validate_port_number(port_number)
    IN IF v # Ok THEN Res(s, v, NoValue, <<>>, {})
       ELSE LET w == Base_validate_write_port_number(s.registry, port_number)
            IN IF w # Ok THEN Res(s, w, NoValue, <<>>, {})
               ELSE Pi_gpio_output(s, port_number, value)

Pi_set_high(s, port_number) == Pi_set_level(s, port_number, HIGH)

Pi_set_low(s, port_number) == Pi_set_level(s, port_number, LOW)

\* PortListener.add_rising_callback / add_falling_callback
Listener_add(l, on_rising_callback, on_falling_callback) ==
    LET l1 == IF on_rising_callback # None
              THEN [l EXCEPT !.rising = Append(@, on_rising_callback)] ELSE l
    IN IF on_falling_callback # None
       THEN [l1 EXCEPT !.falling = Append(@, on_falling_callback)] ELSE l1

Pi_add_event(s, port_number, on_rising_callback, on_falling_callback) ==
    IF Settings_IS_NO_HARDWARE_MODE THEN Res(s, Ok, NoValue, <<>>, {})
    ELSE IF port_number \in DOMAIN s.listeners
    THEN Res([s EXCEPT !.listeners[port_number] =
                  Listener_add(@, on_rising_callback, on_falling_callback)],
             Ok, NoValue, <<>>, {})
    ELSE LET v == Pi_validate_port_number(port_number)
             rd == Pi_get_value(s, port_number)
             new == [last |-> rd.value[1], rising |-> <<>>, falling |-> <<>>]
             added == Listener_add(new, on_rising_callback, on_falling_callback)
         IN IF v # Ok THEN Res(s, v, NoValue, <<>>, {})
            ELSE Res([rd.s EXCEPT
                         !.events = @ \cup {port_number},
                         !.listeners = [q \in DOMAIN @ \cup {port_number} |->
                                          IF q = port_number THEN added ELSE @[q]]],
                     Ok, NoValue, <<>>, {"gpio_input", "add_event_detect"})

Pi_clear_read_events(s, port_number) ==
    IF Settings_IS_NO_HARDWARE_MODE THEN Res(s, Ok, NoValue, <<>>, {})
    ELSE Res([s EXCEPT !.libs = TRUE,
                       !.events = @ \ {port_number},
                       !.listeners = [q \in DOMAIN @ \ {port_number} |-> @[q]]],
             Ok, NoValue, <<>>, {"remove_event_detect"})

\* The attributes a Port object has: those __init__ sets and the members of
\* the class.  Reading any other name raises AttributeError.
PortAttributes ==
    {"_interface", "_number", "initialize", "number", "value", "is_high",
     "is_low", "is_output", "is_input", "set_as_output", "set_as_input",
     "set_high", "set_low", "on_falling", "on_rising",
     "clear_value_change_listeners"}

\* _PiPortListener.get_callbacks_to_trigger: [result, cbs].  Each branch
\* evaluates self.port.interface and self.port.number as the arguments of
\* its logging call before it can return.
Pi_get_callbacks_to_trigger(s, port_number) ==
    LET l == s.listeners[port_number]
        rd == Pi_get_value(s, port_number)
        port_value == rd.value[1]
        to_trigger == IF port_value = HIGH THEN l.rising
                      ELSE IF port_value = LOW THEN l.falling ELSE <<>>
        logged == IF port_value \in {HIGH, LOW} THEN {"interface", "number"} ELSE {}
    IN IF l.rising = <<>> /\ l.falling = <<>> THEN [result |-> Ok, cbs |-> <<>>]
       ELSE IF rd.result # Ok THEN [result |-> rd.result, cbs |-> <<>>]
       ELSE IF ~(logged \subseteq PortAttributes)
            THEN [result |-> AttributeError, cbs |-> <<>>]
            ELSE [result |-> Ok, cbs |-> to_trigger]

\* PortListener.trigger_callbacks, the callable given to add_event_detect:
\* [result, calls], each call <<port, value passed, callback>>.
Pi_trigger_callbacks(s, port_number) ==
    LET g == Pi_get_callbacks_to_trigger(s, port_number)
    IN IF g.result # Ok THEN [result |-> g.result, calls |-> <<>>]
       ELSE [result |-> Ok,
             calls |-> [i \in 1..Len(g.cbs) |->
                          <<port_number, s.listeners[port_number].last, g.cbs[i]>>]]

\* Port.initialize for the Port objects number..40 of _ports.
RECURSIVE Pi_initialize_ports(_, _, _)
Pi_initialize_ports(s, number, hw) ==
    IF number > PiPortsCount THEN Res(s, Ok, NoValue, <<>>, hw)
    ELSE IF ~HasPort("pi", number) THEN Pi_initialize_ports(s, number + 1, hw)
    ELSE LET o == Pi_set_as_output(s, number)
         IN IF o.result # Ok THEN Res(o.s, o.result, NoValue, <<>>, hw \cup o.hw)
            ELSE LET w == Pi_set_low(o.s, number)
                 IN IF w.result # Ok
                    THEN Res(w.s, w.result, NoValue, <<>>, hw \cup o.hw \cup w.hw)
                    ELSE Pi_initialize_ports(w.s, number + 1, hw \cup o.hw \cup w.hw)

\* ------------------------------------------------------- the state machine
McpS == [registry |-> in_out_registry, bus |-> bus_regs, eng |-> engine,
         cnt |-> engineCount, stopped |-> stoppedEngines, libs |-> libs]

PiS == [registry |-> in_out_registry, mode |-> gpio_mode, out |-> gpio_out,
        events |-> gpio_events, listeners |-> port_listeners, libs |-> libs]

ListsBounded(ls) ==
    \A q \in DOMAIN ls :
        Len(ls[q].rising) <= MaxCallbacks /\ Len(ls[q].falling) <= MaxCallbacks

McpApply(r) ==
    /\ r.s.cnt <= MaxEngines
    /\ ListsBounded(r.s.eng.listeners)
    /\ in_out_registry' = r.s.registry
    /\ bus_regs' = r.s.bus
    /\ engine' = r.s.eng
    /\ engineCount' = r.s.cnt
    /\ stoppedEngines' = r.s.stopped
    /\ libs' = r.s.libs
    /\ UNCHANGED <<variant, threadStop, Settings_IS_NO_HARDWARE_MODE,
                   mcp_IS_NO_HARDWARE_MODE, ext, gpio_mode, gpio_out,
                   gpio_events, port_listeners, loop, fired, confirmed, quiet>>

PiApply(r) ==
    /\ ListsBounded(r.s.listeners)
    /\ in_out_registry' = r.s.registry
    /\ gpio_mode' = r.s.mode
    /\ gpio_out' = r.s.out
    /\ gpio_events' = r.s.events
    /\ port_listeners' = r.s.listeners
    /\ libs' = r.s.libs
    /\ UNCHANGED <<variant, threadStop, Settings_IS_NO_HARDWARE_MODE,
                   mcp_IS_NO_HARDWARE_MODE, ext, bus_regs, engine,
                   engineCount, stoppedEngines, loop, fired, confirmed, quiet>>

\* What the chip's output latches hold when the interface is constructed:
\* zero after power-on, or what an earlier run of the program left in them.
InitialLatches == {0, 5}

NoLoop == [pc |-> "none", eng |-> 0, todo |-> <<>>, trig |-> <<>>]

Init ==
    /\ variant \in {"pi", "mcp"}
    /\ threadStop \in (IF variant = "mcp" THEN {"absent", "method"} ELSE {"absent"})
    /\ Settings_IS_NO_HARDWARE_MODE \in BOOLEAN
    /\ mcp_IS_NO_HARDWARE_MODE \in (IF variant = "mcp" THEN BOOLEAN ELSE {FALSE})
    /\ libs = FALSE
    /\ phase = "new"
    /\ in_out_registry = [n \in 0..(PortsLen(variant) - 1) |-> None]
    /\ \E olat \in InitialLatches :
           bus_regs = (REG_SETAS_A :> 255) @@ (REG_SETAS_B :> 255)
                      @@ (REG_WRITE_A :> olat) @@ (REG_WRITE_B :> olat)
    /\ ext = [n \in 1..(PortsLen(variant) - 1) |-> LOW]
    /\ gpio_mode = [n \in 1..PiPortsCount |-> "unset"]
    /\ gpio_out = [n \in 1..PiPortsCount |-> LOW]
    /\ gpio_events = {}
    /\ port_listeners = <<>>
    /\ engine = NoEngine
    /\ engineCount = 0
    /\ stoppedEngines = {}
    /\ loop = NoLoop
    /\ fired = <<>>
    /\ confirmed = [n \in 1..McpPortsCount |-> LOW]
    /\ quiet = [n \in 1..McpPortsCount |-> FALSE]

\* MCP23017.__init__ / PiInterface.__init__: the ports are created and
\* _initialize_ports runs Port.initialize on each; an exception leaves no
\* interface object.
Construct ==
    /\ phase = "new"
    /\ LET r == IF variant = "mcp"
                THEN Mcp_initialize_ports(McpS, 1, <<>>, {})
                ELSE Pi_initialize_ports(PiS, 1, {})
       IN /\ phase' = IF r.result = Ok THEN "ready" ELSE "failed"
          /\ IF variant = "mcp"
             THEN McpApply(r)
             ELSE PiApply(r)

McpReady == phase = "ready" /\ variant = "mcp"
PiReady == phase = "ready" /\ variant = "pi"

McpGetValue(p) ==
    /\ McpReady
    /\ McpApply(Mcp_get_value(McpS, p))
    /\ UNCHANGED phase

McpSetHigh(p) ==
    /\ McpReady
    /\ McpApply(Mcp_set_high(McpS, p))
    /\ UNCHANGED phase

McpSetLow(p) ==
    /\ McpReady
    /\ McpApply(Mcp_set_low(McpS, p))
    /\ UNCHANGED phase

McpSetAsInput(p) ==
    /\ McpReady
    /\ McpApply(Mcp_set_as_input(McpS, p))
    /\ UNCHANGED phase

McpSetAsOutput(p) ==
    /\ McpReady
    /\ McpApply(Mcp_set_as_output(McpS, p))
    /\ UNCHANGED phase

McpAddEvent(p, rising, falling) ==
    /\ McpReady
    /\ McpApply(Mcp_add_event(McpS, p, rising, falling))
    /\ UNCHANGED phase

McpClearReadEvents(p) ==
    /\ McpReady
    /\ McpApply(Mcp_clear_read_events(McpS, p))
    /\ UNCHANGED phase

PiGetValue(p) ==
    /\ PiReady
    /\ PiApply(Pi_get_value(PiS, p))
    /\ UNCHANGED phase

PiSetHigh(p) ==
    /\ PiReady
    /\ PiApply(Pi_set_high(PiS, p))
    /\ UNCHANGED phase

PiSetLow(p) ==
    /\ PiReady
    /\ PiApply(Pi_set_low(PiS, p))
    /\ UNCHANGED phase

PiSetAsInput(p) ==
    /\ PiReady
    /\ PiApply(Pi_set_as_input(PiS, p))
    /\ UNCHANGED phase

PiSetAsOutput(p) ==
    /\ PiReady
    /\ PiApply(Pi_set_as_output(PiS, p))
    /\ UNCHANGED phase

PiAddEvent(p, rising, falling) ==
    /\ PiReady
    /\ PiApply(Pi_add_event(PiS, p, rising, falling))
    /\ UNCHANGED phase

PiClearReadEvents(p) ==
    /\ PiReady
    /\ PiApply(Pi_clear_read_events(PiS, p))
    /\ UNCHANGED phase

\* A line that the hardware holds as an input follows the level applied to it.
LineIsInput(p) ==
    IF variant = "mcp"
    THEN Bit(bus_regs[Mcp_get_setas_register(p)], (p - 1) % 8) = 1
    ELSE gpio_mode[p] # "OUT"

ExtChange(p) ==
    /\ phase = "ready"
    /\ p \in (IF variant = "mcp" THEN McpEnvPorts ELSE PiEnvPorts)
    /\ LineIsInput(p)
    /\ ext' = [ext EXCEPT ![p] = 1 - @]
    /\ quiet' = [n \in DOMAIN quiet |-> IF n = p THEN FALSE ELSE quiet[n]]
    /\ UNCHANGED <<variant, threadStop, Settings_IS_NO_HARDWARE_MODE,
                   mcp_IS_NO_HARDWARE_MODE, libs, phase, in_out_registry,
                   bus_regs, gpio_mode, gpio_out, gpio_events, port_listeners,
                   engine, engineCount, stoppedEngines, loop, fired, confirmed>>

\* The application turns no-hardware mode on: Settings.IS_NO_HARDWARE_MODE
\* = True.  The name mcp.py bound when it was loaded keeps its value.
SetNoHardwareMode ==
    /\ ~Settings_IS_NO_HARDWARE_MODE
    /\ Settings_IS_NO_HARDWARE_MODE' = TRUE
    /\ UNCHANGED <<variant, threadStop, mcp_IS_NO_HARDWARE_MODE, libs, phase,
                   in_out_registry, bus_regs, ext, gpio_mode, gpio_out,
                   gpio_events, port_listeners, engine, engineCount,
                   stoppedEngines, loop, fired, confirmed, quiet>>

McpOps ==
    \E p \in McpCallPorts :
        \/ McpGetValue(p)
        \/ McpSetHigh(p)
        \/ McpSetLow(p)
        \/ McpSetAsInput(p)
        \/ McpSetAsOutput(p)
        \/ McpClearReadEvents(p)
        \/ \E rising \in CallbackArgs, falling \in CallbackArgs :
               McpAddEvent(p, rising, falling)

PiOps ==
    \E p \in PiCallPorts :
        \/ PiGetValue(p)
        \/ PiSetHigh(p)
        \/ PiSetLow(p)
        \/ PiSetAsInput(p)
        \/ PiSetAsOutput(p)
        \/ PiClearReadEvents(p)
        \/ \E rising \in CallbackArgs, falling \in CallbackArgs :
               PiAddEvent(p, rising, falling)

Next ==
    \/ Construct
    \/ McpOps
    \/ PiOps
    \/ \E p \in McpEnvPorts \cup PiEnvPorts : ExtChange(p)
    \/ SetNoHardwareMode

Spec == Init /\ [][Next]_vars

\* ------------------------------------------ the listener thread's loop
\* _PortListener.get_callbacks_to_trigger: [cbs, last]
Listener_get_callbacks_to_trigger(l, new_value) ==
    IF l.rising = <<>> /\ l.falling = <<>>
    THEN [cbs |-> <<>>, last |-> l.last]
    ELSE IF new_value # l.last
         THEN [cbs |-> (IF new_value = HIGH /\ l.last = LOW THEN l.rising ELSE <<>>)
                       \o (IF new_value = LOW /\ l.last = HIGH THEN l.falling ELSE <<>>),
               last |-> new_value]
         ELSE [cbs |-> <<>>, last |-> l.last]

\* _PortListener.has_changed
Listener_has_changed(l, new_value) == new_value # l.last

\* run, for one port of the registry: the calls one pass of the loop makes
\* when the port reads at_collect in get_callbacks_to_trigger and at_reread
\* in has_changed after the debounce sleep.
TickInvocations(listeners, port_number, at_collect, at_reread) ==
    IF port_number \notin DOMAIN listeners THEN <<>>
    ELSE LET g == Listener_get_callbacks_to_trigger(listeners[port_number], at_collect)
             l == [listeners[port_number] EXCEPT !.last = g.last]
         IN IF g.cbs = <<>> \/ Listener_has_changed(l, at_reread) THEN <<>>
            ELSE [i \in 1..Len(g.cbs) |-> <<port_number, l.last, g.cbs[i]>>]

\* The ports of a dict of listeners in the order iteritems() gives them.
RECURSIVE PortsInOrder(_)
PortsInOrder(S) ==
    IF S = {} THEN <<>>
    ELSE LET m == CHOOSE x \in S : \A y \in S : x <= y
         IN <<m>> \o PortsInOrder(S \ {m})

EngineFrame ==
    UNCHANGED <<variant, threadStop, Settings_IS_NO_HARDWARE_MODE,
                mcp_IS_NO_HARDWARE_MODE, libs, phase, in_out_registry,
                bus_regs, ext, gpio_mode, gpio_out, gpio_events,
                port_listeners, engineCount>>

\* The steps of run() call stop() on no thread object.
LoopFrame == EngineFrame /\ UNCHANGED stoppedEngines

\* run: the loop condition, and the start of one pass over the listeners.
\* An engine the interface no longer refers to has had stop() called.
LoopTop ==
    /\ loop.pc = "top"
    /\ IF engine.id # loop.eng \/ engine.stop = "True"
       THEN loop' = [loop EXCEPT !.pc = "exited"]
       ELSE IF DOMAIN engine.listeners = {}
       THEN loop' = loop
       ELSE loop' = [pc |-> "collect", eng |-> loop.eng,
                     todo |-> PortsInOrder(DOMAIN engine.listeners),
                     trig |-> <<>>]
    /\ fired' = <<>>
    /\ LoopFrame
    /\ UNCHANGED <<engine, confirmed, quiet>>

\* run: get_callbacks_to_trigger of the next listener; after the last one
\* the debounce sleep, when any listener gave callbacks, else the short sleep.
LoopCollect ==
    /\ loop.pc = "collect"
    /\ engine.id = loop.eng
    /\ loop.todo # <<>>
    /\ LET port_number == Head(loop.todo)
           l == engine.listeners[port_number]
           g == Listener_get_callbacks_to_trigger(
                    l, Mcp_get_value(McpS, port_number).value[1])
           trig == IF g.cbs # <<>>
                   THEN [q \in DOMAIN loop.trig \cup {port_number} |->
                            IF q = port_number THEN g.cbs ELSE loop.trig[q]]
                   ELSE loop.trig
           rest == Tail(loop.todo)
       IN /\ engine' = [engine EXCEPT !.listeners[port_number].last = g.last]
          /\ loop' = IF rest # <<>>
                     THEN [loop EXCEPT !.todo = rest, !.trig = trig]
                     ELSE IF DOMAIN trig # {}
                          THEN [loop EXCEPT !.pc = "resolve",
                                   !.todo = PortsInOrder(DOMAIN trig), !.trig = trig]
                          ELSE [loop EXCEPT !.pc = "top", !.todo = <<>>, !.trig = <<>>]
    /\ LoopFrame
    /\ UNCHANGED <<fired, confirmed, quiet>>

\* run, after the debounce sleep: has_changed of the next port that gave
\* callbacks, and the calls callback(port, last_read_value) when it has not.
LoopResolve ==
    /\ loop.pc = "resolve"
    /\ engine.id = loop.eng
    /\ loop.todo # <<>>
    /\ LET port_number == Head(loop.todo)
           l == engine.listeners[port_number]
           now == Mcp_get_value(McpS, port_number).value[1]
           rest == Tail(loop.todo)
       IN /\ fired' = IF Listener_has_changed(l, now) THEN fired
                      ELSE fired \o [i \in 1..Len(loop.trig[port_number]) |->
                                        <<port_number, l.last, loop.trig[port_number][i]>>]
          \* confirmed: the level of the last change that outlasted the sleep;
          \* quiet: the change just re-read has reverted to that level.
          /\ confirmed' = IF Listener_has_changed(l, now) THEN confirmed
                          ELSE [confirmed EXCEPT ![port_number] = now]
          /\ quiet' = [quiet EXCEPT ![port_number] =
                          Listener_has_changed(l, now) /\ now = confirmed[port_number]]
          /\ loop' = IF rest # <<>>
                     THEN [loop EXCEPT !.todo = rest]
                     ELSE [loop EXCEPT !.pc = "top", !.todo = <<>>, !.trig = <<>>]
    /\ LoopFrame
    /\ UNCHANGED engine

\* _MCP23017ListenerThread.stop
EngineStop ==
    /\ engine.id # 0
    /\ engine.stop # "True"
    /\ engine' = [engine EXCEPT !.stop = "True"]
    /\ stoppedEngines' = stoppedEngines \cup {engine.id}
    /\ EngineFrame
    /\ UNCHANGED <<loop, fired, confirmed, quiet>>

\* The listener thread and its registry as a component: an expander
\* interface after construction, some of its ports set as inputs and held in
\* the thread's registry with callbacks, the thread in its loop with the
\* stop flag false.
EnginePorts == {3, 9}
ListenerShapes ==
    { [rising |-> <<"cbA">>, falling |-> <<"cbB">>],
      [rising |-> <<"cbA", "cbB">>, falling |-> <<>>],
      [rising |-> <<>>, falling |-> <<"cbB", "cbA">>] }

ListenerShape9 == [rising |-> <<"cbA">>, falling |-> <<"cbB">>]

InitEngine ==
    /\ variant = "mcp"
    /\ threadStop = "method"
    /\ Settings_IS_NO_HARDWARE_MODE = FALSE
    /\ mcp_IS_NO_HARDWARE_MODE = FALSE
    /\ libs = TRUE
    /\ phase = "ready"
    /\ \E monitored \in {{3}, {3, 9}} :
         /\ in_out_registry = [n \in 0..McpPortsCount |->
                IF n = 0 THEN None ELSE IF n \in monitored THEN INPUT ELSE OUTPUT]
         /\ bus_regs = (REG_SETAS_A :> (IF 3 \in monitored THEN 4 ELSE 0))
                       @@ (REG_SETAS_B :> (IF 9 \in monitored THEN 1 ELSE 0))
                       @@ (REG_WRITE_A :> 0) @@ (REG_WRITE_B :> 0)
         /\ ext \in {e \in [1..McpPortsCount -> {LOW, HIGH}] :
                        \A n \in 1..McpPortsCount : n \notin monitored => e[n] = LOW}
         /\ \E shapes \in {f \in [monitored -> ListenerShapes] :
                              9 \in monitored => f[9] = ListenerShape9} :
                engine = [id |-> McpPortsCount + 1, stop |-> "False",
                          runner |-> "thread",
                          listeners |-> [n \in monitored |->
                              [last |-> ext[n], rising |-> shapes[n].rising,
                               falling |-> shapes[n].falling]]]
    /\ engineCount = McpPortsCount + 1
    /\ stoppedEngines = 1..McpPortsCount
    /\ gpio_mode = [n \in 1..PiPortsCount |-> "unset"]
    /\ gpio_out = [n \in 1..PiPortsCount |-> LOW]
    /\ gpio_events = {}
    /\ port_listeners = <<>>
    /\ loop = [pc |-> "top", eng |-> McpPortsCount + 1, todo |-> <<>>, trig |-> <<>>]
    /\ fired = <<>>
    /\ confirmed = [n \in 1..McpPortsCount |-> ext[n]]
    /\ quiet = [n \in 1..McpPortsCount |-> FALSE]

NextEngine ==
    \/ LoopTop
    \/ LoopCollect
    \/ LoopResolve
    \/ EngineStop
    \/ \E p \in EnginePorts : ExtChange(p)
    \/ \E p \in EnginePorts : McpClearReadEvents(p)

SpecEngine == InitEngine /\ [][NextEngine]_vars

\* ---------------------------------------------------------- properties
ValidPorts(v) == {n \in 1..(PortsLen(v) - 1) : HasPort(v, n)}

\* Neither the live flag nor the flag mcp.py bound at import says simulation.
NotSimulation == ~Settings_IS_NO_HARDWARE_MODE /\ ~mcp_IS_NO_HARDWARE_MODE

\* The public operations of the interface followed, applied to its state.
SetLevel(p, value) ==
    IF variant = "mcp" THEN Mcp_set_level(McpS, p, value)
    ELSE Pi_set_level(PiS, p, value)

GetValueIn(s, p) ==
    IF variant = "mcp" THEN Mcp_get_value(s, p) ELSE Pi_get_value(s, p)

AddEvent(p, rising, falling) ==
    IF variant = "mcp" THEN Mcp_add_event(McpS, p, rising, falling)
    ELSE Pi_add_event(PiS, p, rising, falling)

\* What every public operation returns for port p in the current state.
AllOpResults(p) ==
    IF variant = "mcp"
    THEN {Mcp_get_value(McpS, p), Mcp_set_high(McpS, p), Mcp_set_low(McpS, p),
          Mcp_set_as_input(McpS, p), Mcp_set_as_output(McpS, p),
          Mcp_clear_read_events(McpS, p)}
         \cup {Mcp_add_event(McpS, p, r, f) : r \in CallbackArgs, f \in CallbackArgs}
    ELSE {Pi_get_value(PiS, p), Pi_set_high(PiS, p), Pi_set_low(PiS, p),
          Pi_set_as_input(PiS, p), Pi_set_as_output(PiS, p),
          Pi_clear_read_events(PiS, p)}
         \cup {Pi_add_event(PiS, p, r, f) : r \in CallbackArgs, f \in CallbackArgs}

\* The entries of fired added by a step that are calls for port p.
NewFiredFor(p) == \E i \in (Len(fired) + 1)..Len(fired') : fired'[i][1] = p

C2_SustainedChangeInvokesMatching ==
    (McpReady /\ NotSimulation) =>
        \A p \in ValidPorts("mcp") : \A r \in Callbacks, f \in Callbacks :
            in_out_registry[p] = INPUT =>
                LET a == Mcp_add_event(McpS, p, r, f)
                    v == Mcp_get_value(McpS, p).value[1]
                    calls == TickInvocations(a.s.eng.listeners, p, 1 - v, 1 - v)
                IN /\ a.result = Ok
                   /\ calls = << <<p, 1 - v, IF 1 - v = HIGH THEN r ELSE f>> >>

\* C3: outside simulation mode, on a valid port configured as output,
\* set_high then get_value gives HIGH and set_low then get_value gives LOW.
C3_RoundTrip ==
    (phase = "ready" /\ NotSimulation) =>
        \A p \in ValidPorts(variant) :
            in_out_registry[p] = OUTPUT =>
                /\ SetLevel(p, HIGH).result = Ok
                /\ GetValueIn(SetLevel(p, HIGH).s, p).value = Some(HIGH)
                /\ SetLevel(p, LOW).result = Ok
                /\ GetValueIn(SetLevel(p, LOW).s, p).value = Some(LOW)

\* An expander output port reads LOW and is driven HIGH by set_high, beside
\* an input sibling held HIGH from outside.
C3_Witness ==
    /\ McpReady /\ NotSimulation
    /\ in_out_registry[3] = OUTPUT /\ in_out_registry[1] = INPUT /\ ext[1] = HIGH
    /\ Mcp_get_value(McpS, 3).value = Some(LOW)
    /\ Mcp_get_value(Mcp_set_high(McpS, 3).s, 3).value = Some(HIGH)

BankStart(p) == IF p <= 8 THEN 1 ELSE 9

\* The level last driven on a line: the bit its output latch holds.
LastDrivenLevel(q) == Bit(bus_regs[Mcp_get_write_register(q)], q - BankStart(q))

\* C4: the byte of a single-port write has the written value at bit p - s
\* and, at bit q - s of every other port q of the bank, q's last driven
\* level (level write) or 1 iff q is INPUT (direction write).
C4_ByteIsValuePlusSiblingState ==
    (McpReady /\ NotSimulation) =>
        \A p \in ValidPorts("mcp") :
            LET s == BankStart(p)
                sibs == (s..(s + 7)) \ {p}
                LevelByteOk(w, value) ==
                    /\ w.result = Ok
                    /\ Len(w.writes) = 1
                    /\ Bit(w.writes[1][2], p - s) = value
                    /\ \A q \in sibs : Bit(w.writes[1][2], q - s) = LastDrivenLevel(q)
                DirByteOk(w, value) ==
                    /\ Len(w.writes) = 1
                    /\ Bit(w.writes[1][2], p - s) = value
                    /\ \A q \in sibs : Bit(w.writes[1][2], q - s)
                                       = (IF in_out_registry[q] = INPUT THEN 1 ELSE 0)
            IN /\ in_out_registry[p] # INPUT =>
                     /\ LevelByteOk(Mcp_set_high(McpS, p), HIGH)
                     /\ LevelByteOk(Mcp_set_low(McpS, p), LOW)
               /\ DirByteOk(Mcp_set_as_input(McpS, p), 1)
               /\ DirByteOk(Mcp_set_as_output(McpS, p), 0)

\* C5: a level or direction write to a port of one bank writes only that
\* bank's output or direction register and leaves the other bank's alone.
C5_BankIsolation ==
    McpReady =>
        \A p \in ValidPorts("mcp") :
            LET own_write == IF p >= 9 THEN REG_WRITE_B ELSE REG_WRITE_A
                own_setas == IF p >= 9 THEN REG_SETAS_B ELSE REG_SETAS_A
                Only(w, register) ==
                    /\ \A i \in 1..Len(w.writes) : w.writes[i][1] = register
                    /\ \A x \in DOMAIN bus_regs :
                           x # register => w.s.bus[x] = bus_regs[x]
            IN /\ Only(Mcp_set_high(McpS, p), own_write)
               /\ Only(Mcp_set_low(McpS, p), own_write)
               /\ Only(Mcp_set_as_input(McpS, p), own_setas)
               /\ Only(Mcp_set_as_output(McpS, p), own_setas)

\* Port 9 has been driven HIGH and then made an input, port 3 is driven
\* HIGH: each bank's registers hold what was written to that bank alone.
C5_Witness ==
    /\ McpReady /\ NotSimulation
    /\ bus_regs[REG_WRITE_B] = 1 /\ bus_regs[REG_SETAS_B] = 1
    /\ bus_regs[REG_WRITE_A] = 4 /\ bus_regs[REG_SETAS_A] = 0

\* C6: set_high and set_low on a valid port whose registry entry is INPUT
\* raise InvalidPortNumberError and change nothing.
C6_WriteToInputFails ==
    phase = "ready" =>
        \A p \in ValidPorts(variant) :
            in_out_registry[p] = INPUT =>
                \A value \in {HIGH, LOW} :
                    /\ SetLevel(p, value).result = InvalidPortNumberError
                    /\ SetLevel(p, value).writes = <<>>
                    /\ SetLevel(p, value).hw = {}

\* Pin 7 of the native interface has been set as input and set_high on it
\* is refused.
C6_Witness ==
    /\ PiReady
    /\ in_out_registry[7] = INPUT /\ gpio_mode[7] = "IN"
    /\ Pi_set_high(PiS, 7).result = InvalidPortNumberError

\* C7: add_event on a port whose registry entry is OUTPUT raises the
\* direction error and registers no callback, on both interfaces.
C7_ListenOnOutputFails ==
    phase = "ready" =>
        \A p \in ValidPorts(variant) : \A r \in Callbacks, f \in CallbackArgs :
            in_out_registry[p] = OUTPUT =>
                /\ AddEvent(p, r, f).result = InvalidPortNumberError
                /\ variant = "mcp" => AddEvent(p, r, f).s.eng = engine
                /\ variant = "pi" => AddEvent(p, r, f).s.listeners = port_listeners

\* C8: every reserved pin number of the native interface fails validation
\* and every direction or level operation on it, and its registry entry is
\* never INPUT or OUTPUT.
C8_ReservedPinsAlwaysFail ==
    variant = "pi" =>
        \A n \in FORBIDDEN :
            /\ Pi_validate_port_number(n) = InvalidPortNumberError
            /\ in_out_registry[n] \notin {INPUT, OUTPUT}
            /\ Pi_set_as_input(PiS, n).result = InvalidPortNumberError
            /\ Pi_set_as_output(PiS, n).result = InvalidPortNumberError
            /\ Pi_set_high(PiS, n).result = InvalidPortNumberError
            /\ Pi_set_low(PiS, n).result = InvalidPortNumberError

\* The native interface after direction changes on a usable pin, with a
\* reserved pin still refused.
C8_Witness ==
    /\ PiReady
    /\ in_out_registry[7] = INPUT
    /\ in_out_registry[6] = None
    /\ Pi_set_as_output(PiS, 6).result = InvalidPortNumberError

\* C9: every public operation called with a port number that is <= 0, above
\* the port count or reserved raises InvalidPortNumberError and makes no
\* hardware access.
C9_InvalidPortRejectedBeforeHardware ==
    phase = "ready" =>
        \A p \in (IF variant = "mcp" THEN McpCallPorts ELSE PiCallPorts) :
            p \notin ValidPorts(variant) =>
                \A r \in AllOpResults(p) :
                    r.result = InvalidPortNumberError /\ r.hw = {}

OnlyPortWithCallbacks(p) ==
    /\ engine.id # 0
    /\ p \in DOMAIN engine.listeners
    /\ \A q \in DOMAIN engine.listeners :
           (engine.listeners[q].rising # <<>> \/ engine.listeners[q].falling # <<>>)
           <=> q = p

PortCallbacks(ls, p) ==
    IF p \in DOMAIN ls THEN ls[p].rising \o ls[p].falling ELSE <<>>

\* The registry of listeners of an interface state: the thread's on the
\* expander, _port_listeners on the native interface.
ListenersOf(s) == IF variant = "mcp" THEN s.eng.listeners ELSE s.listeners

SetAsOutput(p) ==
    IF variant = "mcp" THEN Mcp_set_as_output(McpS, p)
    ELSE Pi_set_as_output(PiS, p)

\* C11: on both interfaces, set_as_output(p) on an input port p that has
\* rising or falling callbacks registered returns with no callback left
\* registered for p.
C11_SetAsOutputClearsListeners ==
    phase = "ready" =>
        \A p \in ValidPorts(variant) :
            (/\ in_out_registry[p] = INPUT
             /\ PortCallbacks(ListenersOf(IF variant = "mcp" THEN McpS ELSE PiS), p) # <<>>)
            => /\ SetAsOutput(p).result = Ok
               /\ PortCallbacks(ListenersOf(SetAsOutput(p).s), p) = <<>>

\* C12: the thread object that add_event, clear_read_events and
\* set_as_output obtain from _get_events_thread has its loop executed by a
\* thread of its own, never by the calling thread, and an add_event that
\* returns leaves such a thread object with the interface.
C12_LoopRunsOnItsOwnThread ==
    McpReady =>
        /\ Mcp_get_events_thread(McpS).eng.runner = "thread"
        /\ \A p \in ValidPorts("mcp") : \A r \in Callbacks :
               LET a == Mcp_add_event(McpS, p, r, None)
               IN a.result = Ok => a.s.eng.runner = "thread"

\* The thread objects created whose stop() has not been called.
LiveEngines == (1..engineCount) \ stoppedEngines

\* C13: in every reachable state at most one thread object of the interface
\* has been created and run without having been told to stop, and it is the
\* one the interface refers to.
C13_AtMostOneLiveEngine ==
    /\ Cardinality(LiveEngines) <= 1
    /\ LiveEngines \subseteq {engine.id}

\* After construction a thread object was made and stopped, and the one
\* made by the next call is in use and has not been told to stop.
C13_Witness ==
    /\ McpReady
    /\ engine.id = McpPortsCount + 2
    /\ McpPortsCount + 1 \in stoppedEngines
    /\ engine.id \notin stoppedEngines

\* C14: construction, and set_as_output and clear_read_events on an
\* interface with no registered callback, create no thread object, and after
\* any operation has returned a thread object exists only if some port has
\* a registered callback.
C14_EngineOnlyFromFirstListener ==
    /\ (phase = "new" /\ variant = "mcp") =>
           Mcp_initialize_ports(McpS, 1, <<>>, {}).s.cnt = engineCount
    /\ McpReady =>
           /\ \A p \in ValidPorts("mcp") :
                  (\A q \in DOMAIN engine.listeners :
                       PortCallbacks(engine.listeners, q) = <<>>)
                  => /\ Mcp_set_as_output(McpS, p).s.cnt = engineCount
                     /\ Mcp_clear_read_events(McpS, p).s.cnt = engineCount
           /\ engine.id # 0 =>
                  \E q \in DOMAIN engine.listeners :
                      PortCallbacks(engine.listeners, q) # <<>>

\* What the interface and the hardware hold when every declared port is an
\* output driving LOW.
AllOutputLow ==
    /\ \A p \in ValidPorts(variant) : in_out_registry[p] = OUTPUT
    /\ NotSimulation =>
           IF variant = "mcp"
           THEN /\ bus_regs[REG_SETAS_A] = 0 /\ bus_regs[REG_SETAS_B] = 0
                /\ bus_regs[REG_WRITE_A] = 0 /\ bus_regs[REG_WRITE_B] = 0
                /\ \A p \in ValidPorts("mcp") :
                       Mcp_get_value(McpS, p).value = Some(LOW)
           ELSE \A p \in ValidPorts("pi") :
                    /\ gpio_mode[p] = "OUT" /\ gpio_out[p] = LOW
                    /\ Pi_get_value(PiS, p).value = Some(LOW)

CallPorts == IF variant = "mcp" THEN McpCallPorts ELSE PiCallPorts

\* C16: an operation that validates, given a port number that fails the
\* bounds check (0, negative, above the port count), raises
\* InvalidPortNumberError whatever the direction registry holds; add_event
\* in particular raises nothing else and does not return normally.
C16_BoundsCheckedFirst ==
    phase = "ready" =>
        \A p \in CallPorts :
            Base_validate_port_number(variant, p) # Ok =>
                /\ \A value \in {HIGH, LOW} :
                       SetLevel(p, value).result = InvalidPortNumberError
                /\ SetAsOutput(p).result = InvalidPortNumberError
                /\ \A r \in CallbackArgs, f \in CallbackArgs :
                       AddEvent(p, r, f).result = InvalidPortNumberError

AddEventFrom(s, p, rising, falling) ==
    IF variant = "mcp" THEN Mcp_add_event(s, p, rising, falling)
    ELSE Pi_add_event(s, p, rising, falling)

\* C17: add_event with neither a rising nor a falling callback, on a valid
\* input port, does not return normally and leaves the interface as it was:
\* nothing registered, no thread object made, no interrupt registration.
C17_AddEventWithoutCallbacksRejected ==
    phase = "ready" =>
        \A p \in ValidPorts(variant) :
            in_out_registry[p] = INPUT =>
                LET s == IF variant = "mcp" THEN McpS ELSE PiS
                    a == AddEventFrom(s, p, None, None)
                IN /\ a.result # Ok
                   /\ a.s = s
                   /\ a.hw = {}

\* The calls of the current pass of run that are for port p, in order.
FiredFor(p) ==
    LET ForPort(e) == e[1] = p
    IN SelectSeq(fired, ForPort)

CallbacksOf(calls) == [i \in 1..Len(calls) |-> calls[i][3]]

C19_NativeDispatchUsesFreshLevel ==
    PiReady =>
        \A p \in DOMAIN port_listeners :
            PortCallbacks(port_listeners, p) # <<>> =>
                LET level == Pi_get_value(PiS, p).value[1]
                    expected == IF level = HIGH THEN port_listeners[p].rising
                                ELSE port_listeners[p].falling
                    t == Pi_trigger_callbacks(PiS, p)
                IN /\ t.result = Ok
                   /\ t.calls = [i \in 1..Len(expected) |-> <<p, level, expected[i]>>]

\* InOutInterface.is_input / is_output of a valid port number
Base_is_input(registry, port_number) == registry[port_number] = INPUT
Base_is_output(registry, port_number) == registry[port_number] = OUTPUT

\* C20: in every state after construction each valid port number is
\* exactly one of input and output in the direction registry, and index 0
\* and the reserved numbers hold no direction.
C20_RegistryInvariant ==
    phase = "ready" =>
        /\ \A p \in ValidPorts(variant) :
               /\ in_out_registry[p] \in {INPUT, OUTPUT}
               /\ Base_is_input(in_out_registry, p) # Base_is_output(in_out_registry, p)
        /\ \A n \in DOMAIN in_out_registry \ ValidPorts(variant) :
               in_out_registry[n] = None

\* An expander interface with one port turned into an input and back-to-back
\* sibling still an output.
C20_Witness ==
    /\ McpReady
    /\ Base_is_input(in_out_registry, 1)
    /\ Base_is_output(in_out_registry, 3)
    /\ in_out_registry[0] = None

\* The thread is inside one pass over its registry: between the start of the
\* iteration over the listeners and the last has_changed after the sleep.
InsidePass == loop.pc \in {"collect", "resolve"} /\ loop.todo # <<>>

Polling == loop.pc \in {"top", "collect", "resolve"} /\ loop.eng = engine.id

\* C22: a thread object a constructed interface holds and on which stop()
\* has not been called has its stop flag false and its loop polling.
C22_FreshEnginePollsUntilStopped ==
    (McpReady /\ engine.id # 0 /\ engine.id \notin stoppedEngines) =>
        (engine.stop = "False" /\ Polling)

\* C23: while Settings.IS_NO_HARDWARE_MODE is set, no public operation of a
\* constructed interface makes a hardware access, whatever the port number,
\* and get_value of every valid port returns LOW.
C23_SimulationTouchesNoHardware ==
    (phase = "ready" /\ Settings_IS_NO_HARDWARE_MODE) =>
        \A p \in CallPorts :
            /\ \A r \in AllOpResults(p) : r.hw = {}
            /\ p \in ValidPorts(variant) =>
                   GetValueIn(IF variant = "mcp" THEN McpS ELSE PiS, p).value = Some(LOW)

FramePorts == (McpCallPorts \cap ValidPorts("mcp")) \cup {2, 10}

\* C25: set_high or set_low of an expander port that is an output leaves
\* what get_value returns for every other port that is an output as it was,
\* and leaves the direction registry and both direction registers as they
\* were, whatever levels are applied to the ports that are inputs.
C25_LevelWriteFrame ==
    McpReady =>
        LET outputs == {q \in ValidPorts("mcp") : in_out_registry[q] = OUTPUT}
            before == [q \in outputs |-> Mcp_get_value(McpS, q).value]
        IN \A p \in outputs \cap FramePorts :
               \A w \in {Mcp_set_high(McpS, p), Mcp_set_low(McpS, p)} :
                    /\ \A q \in outputs \ {p} :
                           Mcp_get_value(w.s, q).value = before[q]
                    /\ w.s.registry = in_out_registry
                    /\ w.s.bus[REG_SETAS_A] = bus_regs[REG_SETAS_A]
                    /\ w.s.bus[REG_SETAS_B] = bus_regs[REG_SETAS_B]

\* Port 1 is an output driven HIGH, port 3 an input held HIGH from outside,
\* and set_low of their sibling 2 writes the bank's byte with port 1 still set.
C25_Witness ==
    /\ McpReady /\ NotSimulation
    /\ in_out_registry[1] = OUTPUT /\ LastDrivenLevel(1) = HIGH
    /\ in_out_registry[2] = OUTPUT
    /\ in_out_registry[3] = INPUT /\ ext[3] = HIGH
    /\ Mcp_set_low(McpS, 2).writes = <<<<REG_WRITE_A, 5>>>>
    /\ Mcp_get_value(Mcp_set_low(McpS, 2).s, 1).value = Some(HIGH)

\* The bit of port p in the direction register of its bank.
DirectionBit(bus, p) == Bit(bus[Mcp_get_setas_register(p)], p - BankStart(p))

\* C26 as stated: in every state after construction the direction register
\* bit of every expander port is 1 exactly when the direction registry holds
\* INPUT for it and 0 exactly when it holds OUTPUT.
C26_DirectionRegisterMirrorsRegistry ==
    McpReady =>
        \A p \in ValidPorts("mcp") :
            /\ DirectionBit(bus_regs, p) = 1 <=> in_out_registry[p] = INPUT
            /\ DirectionBit(bus_regs, p) = 0 <=> in_out_registry[p] = OUTPUT

\* C26 amended: the same, in the states outside simulation mode, where the
\* interface's writes reach the chip.
C26_MirrorsRegistryOutsideSimulation ==
    NotSimulation => C26_DirectionRegisterMirrorsRegistry

\* Ports 1 and 9 have been made inputs and port 3 is an output: bit 0 of
\* each bank's direction register is set and no other.
C26_Witness ==
    /\ McpReady /\ NotSimulation
    /\ in_out_registry[1] = INPUT /\ in_out_registry[9] = INPUT
    /\ in_out_registry[3] = OUTPUT
    /\ bus_regs[REG_SETAS_A] = 1 /\ bus_regs[REG_SETAS_B] = 1

\* The interface state after a call is the state before it: direction
\* registry, hardware registers and pins, listener registry and engine.
SameState(s) ==
    IF variant = "mcp"
    THEN /\ s.registry = in_out_registry
         /\ s.bus = bus_regs
         /\ s.eng = engine
         /\ s.stopped = stoppedEngines
    ELSE /\ s.registry = in_out_registry
         /\ s.mode = gpio_mode
         /\ s.out = gpio_out
         /\ s.events = gpio_events
         /\ s.listeners = port_listeners

\* C27: a public operation that raises InvalidPortNumberError (invalid port
\* number or direction mismatch) leaves the direction registry, the hardware
\* registers, the listener registry and the engine as they were.
C27_FailedOperationChangesNothing ==
    phase = "ready" =>
        \A p \in CallPorts :
            \A r \in AllOpResults(p) :
                r.result = InvalidPortNumberError => SameState(r.s)

====
